---- MODULE Spec2Model ----
(***************************************************************************)
(* Study planner: the Task / Category manager of app/routes.py and the     *)
(* calendar sync adapter of app/google_calendar.py, as a state machine.    *)
(*                                                                         *)
(* One action per route handler.  A handler runs to its response in one    *)
(* step (the application is synchronous, one request at a time); the       *)
(* remote calls it issues and the order of its local writes are kept in    *)
(* the log of the last request.  SpecThreaded runs add_task statement by   *)
(* statement in two threads of the server, for the requests that overlap.  *)
(*                                                                         *)
(* Reading of the sources.  routes.py is the latest revision of the        *)
(* handlers: it treats form.category.data as a Category row ("Category     *)
(* object from dropdown", routes.py:196) and still writes the legacy       *)
(* string column Task.category, which migrate_categories.py reads as a     *)
(* column.  forms.py and models.py in the tree are of other revisions      *)
(* (a SelectField of strings, no Task.category).  The handlers are         *)
(* modelled as routes.py is written: the selection field yields a Category *)
(* row or nothing, and the legacy string column, which no handler reads,   *)
(* is left out.                                                            *)
(*                                                                         *)
(* A remote call ends in one of three ways: it returns ("ok"), it raises   *)
(* googleapiclient's HttpError, or it raises another exception (a token    *)
(* refresh failure, a transport error).  The adapter functions catch       *)
(* HttpError only; schedule catches Exception.                             *)
(***************************************************************************)
EXTENDS Integers, Sequences, FiniteSets, TLC

\* ------------------------------------------------------------------ bounds
\* requests handled in one run of the application
MaxRequests == 3

\* ----------------------------------------------------------------- domains
Users == {1, 2}
\* Python None for ids and datetimes (ids and hours are >= 1)
None == 0
\* User.google_token: NULL or the JSON blob written by oauth2callback
NoToken == "NULL"
TokenJson == "token_json"

\* the posted TaskForm: title (DataRequired), description, due_date.
\* datetimes are whole hours since an epoch; 23 + 1h crosses midnight
TaskForms ==
  { [title |-> "",   description |-> "",   due_date |-> None],
    [title |-> "t1", description |-> "",   due_date |-> None],
    [title |-> "t1", description |-> "d1", due_date |-> 10],
    [title |-> "t2", description |-> "",   due_date |-> 23] }
\* datetime.now() of a request
Clock == {9}
\* the <status> path segment of /update_task_status/<id>/<status>
PostedStatus == {"todo", "doing", "done", "archived"}
\* how a remote call ends
Outcomes == {"ok", "HttpError", "Exception"}
Locations == {"", "L1"}
Questions == {"q1", "q2"}

\* characters of a free-text category name
Space == " "
UpperOf == [c \in {"a", "b", "A", "B", " "} |->
              CASE c = "a" -> "A" [] c = "b" -> "B" [] OTHER -> c]
LowerOf == [c \in {"a", "b", "A", "B", " "} |->
              CASE c = "A" -> "a" [] c = "B" -> "b" [] OTHER -> c]
IsLetter(c) == c /= Space
\* form.other_category.data as posted
RawNames == { <<>>, <<" ">>, <<"a">>, <<"A", " ">>, <<" ", "b", "A">> }

\* ------------------------------------------------------- pure helpers
Max(S) == IF S = {} THEN 0 ELSE CHOOSE x \in S : \A y \in S : y <= x

\* INTEGER PRIMARY KEY of SQLite: the next rowid is the largest one + 1
NextId(rows) == Max(DOMAIN rows) + 1

RECURSIVE LStrip(_)
LStrip(s) == IF s /= <<>> /\ Head(s) = Space THEN LStrip(Tail(s)) ELSE s

RECURSIVE RStrip(_)
RStrip(s) == IF s /= <<>> /\ s[Len(s)] = Space
             THEN RStrip(SubSeq(s, 1, Len(s) - 1)) ELSE s

\* str.strip()
Strip(s) == RStrip(LStrip(s))

\* str.title(): a letter is upper-cased after a non-letter, lower-cased
\* after a letter
TitleCase(s) == [i \in 1..Len(s) |->
                   IF i = 1 \/ ~IsLetter(s[i - 1]) THEN UpperOf[s[i]]
                   ELSE LowerOf[s[i]]]

\* a normalisation that strips and leaves the letter case as typed
NormalizeName_StripOnly(raw) == Strip(raw)

\* routes.py:201  form.other_category.data.strip().title()
NormalizeName(raw) == TitleCase(Strip(raw))

\* datetime.isoformat(): "YYYY-MM-DDTHH:00:00" as <<day, hour>>
isoformat(d) == <<d \div 24, d % 24>>
\* datetime.fromisoformat()
fromisoformat(s) == s[1] * 24 + s[2]
\* timedelta(hours=1), timedelta(days=1)
OneHour == 1
OneDay == 24

EventTime(d) == [dateTime |-> isoformat(d), timeZone |-> "UTC"]

\* ------------------------------------------------------------------ state
VARIABLES
  users,        \* User rows: id -> [google_token, calendar_sync_enabled]
  tasks,        \* Task rows: id -> record
  categories,   \* Category rows: id -> [user_id, name]
  flashcards,   \* Flashcard rows: id -> [user_id, question]
  summaries,    \* Summary rows: id -> [user_id]
  events,       \* the remote calendars: event id -> event (owner = account)
  nextEventId,  \* the remote service never reuses an event id
  last,         \* the last request: handler, acting user, response, log
  nreq,         \* requests handled so far
  requests      \* the add_task requests in flight, one per server thread

vars == <<users, tasks, categories, flashcards, summaries, events,
          nextEventId, last, nreq, requests>>

\* a key the JSON payload does not carry
Absent == "<absent>"
\* a request without a JSON payload
NoPayload == [summary |-> Absent, description |-> Absent, location |-> Absent]

\* a request without category fields
NoCategoryInput == [selected |-> None, other |-> <<>>]

\* a request's response and the trace of its remote calls and local writes
Req(op, u, target, code, log) ==
  [op |-> op, user |-> u, target |-> target, code |-> code, log |-> log,
   flash |-> "", arg |-> "", data |-> NoPayload, category |-> NoCategoryInput,
   week |-> <<>>, upcoming |-> <<>>, imported |-> <<>>]

\* the request's path argument, kept with the response
WithArg(req, arg) == [req EXCEPT !.arg = arg]

\* the request's JSON payload, kept with the response
WithData(req, data) == [req EXCEPT !.data = data]

\* a posted TaskForm, kept with the response: the title and the category
\* fields
Posted(form, cin, op, u, target, code, log) ==
  [Req(op, u, target, code, log) EXCEPT !.arg = form.title, !.category = cin]

\* flash(message, category) before the response
Flashed(req, category) == [req EXCEPT !.flash = category]

\* log entries: <<kind, id, result>>
Call(kind, id, result) == <<kind, id, result>>

\* what get_calendar_service prints when it returns None
NoService(u) == <<Call("service", u, "none")>>

\* a user row before and after the OAuth grant (routes.py:502-503)
Disconnected == [google_token |-> NoToken, calendar_sync_enabled |-> FALSE]
Connected == [google_token |-> TokenJson, calendar_sync_enabled |-> TRUE]

\* the threads of the server (app.run: one thread per request)
Threads == {1, 2}

\* a thread with no request; a request's position in add_task is its pc:
\* "lookup" (routes.py:204), "flush" (routes.py:217), "commit"
\* (routes.py:242), "done"
Idle ==
  [pc |-> "idle", user |-> None, title |-> "", other |-> <<>>,
   looked_up |-> FALSE, found |-> None, category_id |-> None,
   flushed |-> FALSE,
   code |-> 0, task |-> None]

\* an empty database and empty calendars; nobody has connected a calendar
\* yet, or the first user already has
Init ==
  /\ users \in {[u \in Users |-> Disconnected],
                [u \in Users |-> IF u = 1 THEN Connected ELSE Disconnected]}
  /\ tasks = <<>>
  /\ categories = <<>>
  /\ flashcards = <<>>
  /\ summaries = <<>>
  /\ events = <<>>
  /\ nextEventId = 1
  /\ last = Req("init", None, None, 0, <<>>)
  /\ nreq = 0
  /\ requests = [w \in Threads |-> Idle]

\* an ownership check that lets every signed-in user through
Owns_Anyone(u, row) == TRUE

\* the per-request ownership check: `task.user_id != current_user.id`,
\* `flashcard.author != current_user`
Owns(u, row) == row.user_id = u

\* one more request is taken and handled to its response in one step:
\* none is left in flight
Accept == nreq < MaxRequests /\ nreq' = nreq + 1 /\ UNCHANGED requests

\* the ids a request can name: the rows there are, and one there is not
Targets(rows) == DOMAIN rows \cup {NextId(rows)}
EventTargets == DOMAIN events \cup {nextEventId}

\* --------------------------------------------------- calendar sync adapter
\* a service that is built without looking at the stored token
get_calendar_service_IgnoresToken(u, build_ok) == build_ok

\* a service that is there for every user, connected or not
get_calendar_service_Always(u, build_ok) == TRUE

\* get_calendar_service: no service without a token, or when building the
\* credentials or the client raises (build_ok = FALSE)
get_calendar_service(u, build_ok) ==
  IF users[u].google_token = NoToken THEN FALSE ELSE build_ok

\* an event id names an event of the acting user's own calendar
InCalendar(u, event_id) ==
  event_id \in DOMAIN events /\ events[event_id].owner = u

\* what the service answers: a call on a missing or deleted event that
\* reaches the service is an HttpError (404 / 410)
Answer(out, found) == IF out = "ok" /\ ~found THEN "HttpError" ELSE out

\* task.description or 'No description provided'
DescriptionOrDefault(task) ==
  IF task.description = "" THEN "No description provided" ELSE task.description

\* the body create_calendar_event inserts
NewEvent(u, task, now) ==
  LET start_time == IF task.due_date /= None THEN task.due_date
                    ELSE now + OneDay
      end_time == start_time + OneHour
  IN  [owner |-> u,
       summary |-> task.title,
       description |-> DescriptionOrDefault(task),
       start |-> EventTime(start_time),
       end |-> EventTime(end_time),
       location |-> "",
       reminders |-> "popup30"]

\* create_calendar_event answering with an event id although the insert
\* ended in an HttpError
create_calendar_event_IdOnError(u, task, now, out) ==
  CASE out = "ok" ->
         [ret |-> nextEventId, raised |-> FALSE,
          events |-> (nextEventId :> NewEvent(u, task, now)) @@ events,
          next |-> nextEventId + 1,
          log |-> <<Call("insert", nextEventId, "ok")>>]
    [] out = "HttpError" ->
         [ret |-> nextEventId, raised |-> FALSE, events |-> events,
          next |-> nextEventId,
          log |-> <<Call("insert", None, "HttpError")>>]
    [] OTHER ->
         [ret |-> None, raised |-> TRUE, events |-> events,
          next |-> nextEventId,
          log |-> <<Call("insert", None, "Exception")>>]

\* create_calendar_event(service, task): ret is the new event id or None;
\* only HttpError is caught
create_calendar_event(u, task, now, out) ==
  CASE out = "ok" ->
         [ret |-> nextEventId, raised |-> FALSE,
          events |-> (nextEventId :> NewEvent(u, task, now)) @@ events,
          next |-> nextEventId + 1,
          log |-> <<Call("insert", nextEventId, "ok")>>]
    [] out = "HttpError" ->
         [ret |-> None, raised |-> FALSE, events |-> events,
          next |-> nextEventId,
          log |-> <<Call("insert", None, "HttpError")>>]
    [] OTHER ->
         [ret |-> None, raised |-> TRUE, events |-> events,
          next |-> nextEventId,
          log |-> <<Call("insert", None, "Exception")>>]

\* an update that moves the start and leaves the fetched end in place
UpdatedEvent_StaleEnd(event, task) ==
  LET start_time == IF task.due_date /= None THEN task.due_date
                    ELSE fromisoformat(event.start.dateTime)
  IN  [event EXCEPT !.summary = task.title,
                    !.description = DescriptionOrDefault(task),
                    !.start = EventTime(start_time)]

\* an update that sends a fresh body, as create_calendar_event does, in
\* place of the fetched event
UpdatedEvent_FreshBody(event, task) ==
  LET start_time == IF task.due_date /= None THEN task.due_date
                    ELSE fromisoformat(event.start.dateTime)
      end_time == start_time + OneHour
  IN  [owner |-> event.owner,
       summary |-> task.title,
       description |-> DescriptionOrDefault(task),
       start |-> EventTime(start_time),
       end |-> EventTime(end_time),
       location |-> "",
       reminders |-> "popup30"]

\* an update that leaves the fetched summary in place
UpdatedEvent_KeepsSummary(event, task) ==
  LET start_time == IF task.due_date /= None THEN task.due_date
                    ELSE fromisoformat(event.start.dateTime)
      end_time == start_time + OneHour
  IN  [event EXCEPT !.description = DescriptionOrDefault(task),
                    !.start = EventTime(start_time),
                    !.end = EventTime(end_time)]

\* the body update_calendar_event sends back: the fetched event with
\* summary, description, start and end overwritten
UpdatedEvent(event, task) ==
  LET start_time == IF task.due_date /= None THEN task.due_date
                    ELSE fromisoformat(event.start.dateTime)
      end_time == start_time + OneHour
  IN  [event EXCEPT !.summary = task.title,
                    !.description = DescriptionOrDefault(task),
                    !.start = EventTime(start_time),
                    !.end = EventTime(end_time)]

\* update_calendar_event(service, event_id, task): ret is True / False;
\* only HttpError is caught
update_calendar_event(u, event_id, task, out_get, out_update) ==
  LET g == Answer(out_get, InCalendar(u, event_id))
  IN  IF g /= "ok"
      THEN [ret |-> FALSE, raised |-> (g = "Exception"), events |-> events,
            log |-> <<Call("get", event_id, g)>>]
      ELSE IF out_update = "ok"
      THEN [ret |-> TRUE, raised |-> FALSE,
            events |-> [events EXCEPT
                          ![event_id] = UpdatedEvent(events[event_id], task)],
            log |-> <<Call("get", event_id, "ok"),
                      Call("update", event_id, "ok")>>]
      ELSE [ret |-> FALSE, raised |-> (out_update = "Exception"),
            events |-> events,
            log |-> <<Call("get", event_id, "ok"),
                      Call("update", event_id, out_update)>>]

\* a deletion that takes an HttpError (the event is gone) for a success
delete_calendar_event_GoneIsSuccess(u, event_id, out) ==
  LET a == Answer(out, InCalendar(u, event_id))
  IN  IF a = "ok"
      THEN [ret |-> TRUE, raised |-> FALSE,
            events |-> [e \in DOMAIN events \ {event_id} |-> events[e]],
            log |-> <<Call("delete", event_id, "ok")>>]
      ELSE [ret |-> (a = "HttpError"), raised |-> (a = "Exception"),
            events |-> events,
            log |-> <<Call("delete", event_id, a)>>]

\* a deletion that issues the call once more after an HttpError
delete_calendar_event_Retries(u, event_id, out) ==
  LET a == Answer(out, InCalendar(u, event_id))
  IN  IF a = "ok"
      THEN [ret |-> TRUE, raised |-> FALSE,
            events |-> [e \in DOMAIN events \ {event_id} |-> events[e]],
            log |-> <<Call("delete", event_id, "ok")>>]
      ELSE [ret |-> FALSE, raised |-> (a = "Exception"), events |-> events,
            log |-> IF a = "HttpError"
                    THEN <<Call("delete", event_id, a),
                           Call("delete", event_id, a)>>
                    ELSE <<Call("delete", event_id, a)>>]

\* delete_calendar_event(service, event_id): ret is True / False;
\* only HttpError is caught
delete_calendar_event(u, event_id, out) ==
  LET a == Answer(out, InCalendar(u, event_id))
  IN  IF a = "ok"
      THEN [ret |-> TRUE, raised |-> FALSE,
            events |-> [e \in DOMAIN events \ {event_id} |-> events[e]],
            log |-> <<Call("delete", event_id, "ok")>>]
      ELSE [ret |-> FALSE, raised |-> (a = "Exception"), events |-> events,
            log |-> <<Call("delete", event_id, a)>>]

\* ------------------------------------------------- task / category manager
\* Category.query.filter_by(user_id, name).first()
CategoryOf(u, name) ==
  {c \in DOMAIN categories :
     categories[c].user_id = u /\ categories[c].name = name}

\* `form.other_category.data and form.other_category.data.strip()`
HasCustomCategory(other) == Strip(other) /= <<>>

\* a category resolution without the lookup: a row is made for every
\* custom name
ResolveCategory_NoLookup(u, selected, other) ==
  LET name == NormalizeName(other)
  IN  IF HasCustomCategory(other)
      THEN [id |-> NextId(categories),
            table |-> (NextId(categories) :>
                         [user_id |-> u, name |-> name]) @@ categories]
      ELSE [id |-> selected, table |-> categories]

\* the category resolution shared by add_task and edit_task: the id the
\* task gets and the Category table after the flush
ResolveCategory(u, selected, other) ==
  LET name == NormalizeName(other)
      found == CategoryOf(u, name)
  IN  IF HasCustomCategory(other)
      THEN IF found /= {}
           THEN [id |-> CHOOSE c \in found : TRUE, table |-> categories]
           ELSE [id |-> NextId(categories),
                 table |-> (NextId(categories) :>
                              [user_id |-> u, name |-> name]) @@ categories]
      ELSE [id |-> selected, table |-> categories]

\* the category fields of the posted form: the row picked in the selection
\* field (or none) and the free text typed in the "Other" field
CategoryInputs ==
  [selected : {None} \cup DOMAIN categories, other : {<<>>}]
    \cup [selected : {None}, other : RawNames \ {<<>>}]

\* a validation that lets every form through
Validates_Any(form) == TRUE

\* form.validate_on_submit(): title is DataRequired
Validates(form) == form.title /= ""

\* Task(...) with the column defaults of models.py
NewTask(u, form, category_id) ==
  [user_id |-> u, title |-> form.title, description |-> form.description,
   due_date |-> form.due_date, category_id |-> category_id,
   is_complete |-> FALSE, status |-> "todo",
   google_event_id |-> None, synced_to_calendar |-> FALSE]

\* a status check that accepts every value of the path
ValidStatus_Any(status) == TRUE

\* STEP 3 of update_task_status
ValidStatus(status) == status \in {"todo", "doing", "done"}

\* POST /update_task_status/<task_id>/<status>
update_task_status(u, task_id, status) ==
  LET Resp(code, log) ==
        WithArg(Req("update_task_status", u, task_id, code, log), status)
  IN
  /\ Accept
  /\ UNCHANGED <<users, categories, flashcards, summaries, events, nextEventId>>
  /\ IF task_id \notin DOMAIN tasks
     THEN /\ last' = Resp(404, <<>>)
          /\ UNCHANGED tasks
     ELSE IF ~Owns(u, tasks[task_id])
     THEN /\ last' = Resp(403, <<>>)
          /\ UNCHANGED tasks
     ELSE IF ~ValidStatus(status)
     THEN /\ last' = Resp(400, <<>>)
          /\ UNCHANGED tasks
     ELSE /\ tasks' = [tasks EXCEPT ![task_id].status = status]
          /\ last' = Resp(200, <<Call("commit", task_id, "ok")>>)

\* a sync condition that does not look at the due date
AddTaskSyncs_IgnoresDueDate(u, task) == users[u].calendar_sync_enabled

\* STEP 7 of add_task: the remote event is asked for
AddTaskSyncs(u, task) == users[u].calendar_sync_enabled /\ task.due_date /= None

\* POST /add_task
add_task(u, form, cin) ==
  LET cat == ResolveCategory(u, cin.selected, cin.other)
      tid == NextId(tasks)
      new_task == NewTask(u, form, cat.id)
      stored == <<Call("commit", tid, "ok")>>
  IN
  /\ Accept
  /\ UNCHANGED <<users, flashcards, summaries>>
  /\ IF ~Validates(form)
     THEN \* the form is rendered again
          /\ last' = Posted(form, cin, "add_task", u, None, 200, <<>>)
          /\ UNCHANGED <<tasks, categories, events, nextEventId>>
     ELSE /\ categories' = cat.table
          /\ IF AddTaskSyncs(u, new_task)
             THEN \E build_ok \in BOOLEAN :
                  IF get_calendar_service(u, build_ok)
                  THEN \E out \in Outcomes, now \in Clock :
                       LET r == create_calendar_event(u, new_task, now, out)
                       IN  /\ events' = r.events
                           /\ nextEventId' = r.next
                           /\ IF r.raised
                              THEN \* the task is committed, the request fails
                                   /\ tasks' = (tid :> new_task) @@ tasks
                                   /\ last' = Posted(form, cin, "add_task", u, tid, 500,
                                                  stored \o r.log)
                              ELSE IF r.ret /= None
                              THEN /\ tasks' = (tid :>
                                        [new_task EXCEPT
                                           !.google_event_id = r.ret,
                                           !.synced_to_calendar = TRUE]) @@ tasks
                                   /\ last' = Flashed(Posted(form, cin, "add_task", u, tid,
                                                  302, stored \o r.log \o stored),
                                                  "success")
                              ELSE /\ tasks' = (tid :> new_task) @@ tasks
                                   /\ last' = Flashed(Posted(form, cin, "add_task", u, tid,
                                                  302, stored \o r.log),
                                                  "success")
                  ELSE /\ tasks' = (tid :> new_task) @@ tasks
                       /\ last' = Flashed(Posted(form, cin, "add_task", u, tid, 302,
                                              stored \o NoService(u)), "success")
                       /\ UNCHANGED <<events, nextEventId>>
             ELSE /\ tasks' = (tid :> new_task) @@ tasks
                  /\ last' = Flashed(Posted(form, cin, "add_task", u, tid, 302, stored), "success")
                  /\ UNCHANGED <<events, nextEventId>>

\* an edit that resolves the category only for a task that had none
EditedTask_KeepsCategory(task, form, category_id) ==
  [task EXCEPT !.title = form.title,
               !.description = form.description,
               !.due_date = form.due_date,
               !.category_id = IF @ /= None THEN @ ELSE category_id]

\* the task row edit_task commits
EditedTask(task, form, category_id) ==
  [task EXCEPT !.title = form.title,
               !.description = form.description,
               !.due_date = form.due_date,
               !.category_id = category_id]

\* "Update Google Calendar if synced" (routes.py:318)
EditTaskSyncs(u, task) ==
  users[u].calendar_sync_enabled /\ task.google_event_id /= None

\* POST /edit_task/<task_id>
edit_task(u, task_id) ==
  LET stored == <<Call("commit", task_id, "ok")>>
  IN
  /\ Accept
  /\ UNCHANGED <<users, flashcards, summaries, nextEventId>>
  /\ IF task_id \notin DOMAIN tasks
     THEN /\ last' = Req("edit_task", u, task_id, 404, <<>>)
          /\ UNCHANGED <<tasks, categories, events>>
     ELSE IF ~Owns(u, tasks[task_id])
     THEN /\ last' = Flashed(Req("edit_task", u, task_id, 302, <<>>), "danger")
          /\ UNCHANGED <<tasks, categories, events>>
     ELSE \E form \in TaskForms, cin \in CategoryInputs :
          LET cat == ResolveCategory(u, cin.selected, cin.other)
              task == EditedTask(tasks[task_id], form, cat.id)
          IN
          IF ~Validates(form)
          THEN /\ last' = Posted(form, cin, "edit_task", u, task_id, 200, <<>>)
               /\ UNCHANGED <<tasks, categories, events>>
          ELSE /\ categories' = cat.table
               /\ tasks' = [tasks EXCEPT ![task_id] = task]
               /\ IF EditTaskSyncs(u, task)
                  THEN \E build_ok \in BOOLEAN :
                       IF get_calendar_service(u, build_ok)
                       THEN \E out_get \in Outcomes, out_update \in Outcomes :
                            LET r == update_calendar_event(u,
                                       task.google_event_id, task,
                                       out_get, out_update)
                            IN  /\ events' = r.events
                                /\ last' = Flashed(Posted(form, cin, "edit_task", u, task_id,
                                             IF r.raised THEN 500 ELSE 302,
                                             stored \o r.log),
                                             IF r.raised THEN "" ELSE "success")
                       ELSE /\ UNCHANGED events
                            /\ last' = Flashed(Posted(form, cin, "edit_task", u, task_id, 302,
                                                   stored \o NoService(u)),
                                               "success")
                  ELSE /\ UNCHANGED events
                       /\ last' = Flashed(Posted(form, cin, "edit_task", u, task_id, 302,
                                              stored), "success")

\* a deletion that goes to the calendar for every linked task
DeleteTaskSyncs_IgnoresFlag(u, task) == task.google_event_id /= None

\* "Delete from Google Calendar if synced" (routes.py:340)
DeleteTaskSyncs(u, task) ==
  task.google_event_id /= None /\ users[u].calendar_sync_enabled

\* POST /delete_task/<task_id>
delete_task(u, task_id) ==
  LET task == tasks[task_id]
      remaining == [t \in DOMAIN tasks \ {task_id} |-> tasks[t]]
      deleted == <<Call("db_delete", task_id, "ok")>>
  IN
  /\ Accept
  /\ UNCHANGED <<users, categories, flashcards, summaries, nextEventId>>
  /\ IF task_id \notin DOMAIN tasks
     THEN /\ last' = Req("delete_task", u, task_id, 404, <<>>)
          /\ UNCHANGED <<tasks, events>>
     ELSE IF ~Owns(u, task)
     THEN /\ last' = Flashed(Req("delete_task", u, task_id, 302, <<>>), "danger")
          /\ UNCHANGED <<tasks, events>>
     ELSE IF DeleteTaskSyncs(u, task)
     THEN \E build_ok \in BOOLEAN :
          IF get_calendar_service(u, build_ok)
          THEN \E out \in Outcomes :
               LET r == delete_calendar_event(u, task.google_event_id, out)
               IN  /\ events' = r.events
                   /\ IF r.raised
                      THEN \* the exception leaves the handler before
                           \* db.session.delete(task)
                           /\ UNCHANGED tasks
                           /\ last' = Req("delete_task", u, task_id, 500, r.log)
                      ELSE /\ tasks' = remaining
                           /\ last' = Flashed(Req("delete_task", u, task_id,
                                          302, r.log \o deleted), "success")
          ELSE /\ tasks' = remaining
               /\ UNCHANGED events
               /\ last' = Flashed(Req("delete_task", u, task_id, 302,
                                      NoService(u) \o deleted), "success")
     ELSE /\ tasks' = remaining
          /\ UNCHANGED events
          /\ last' = Flashed(Req("delete_task", u, task_id, 302, deleted),
                                 "success")

\* a completion that marks the task complete whatever it was
Toggled_SetsComplete(task) == [task EXCEPT !.is_complete = TRUE]

\* task.is_complete = not task.is_complete
Toggled(task) == [task EXCEPT !.is_complete = ~@]

\* POST /complete_task/<task_id>
complete_task(u, task_id) ==
  /\ Accept
  /\ UNCHANGED <<users, categories, flashcards, summaries, events, nextEventId>>
  /\ IF task_id \notin DOMAIN tasks
     THEN /\ last' = Req("complete_task", u, task_id, 404, <<>>)
          /\ UNCHANGED tasks
     ELSE IF ~Owns(u, tasks[task_id])
     THEN /\ last' = Flashed(Req("complete_task", u, task_id, 302, <<>>), "danger")
          /\ UNCHANGED tasks
     ELSE /\ tasks' = [tasks EXCEPT ![task_id] = Toggled(tasks[task_id])]
          /\ last' = Flashed(Req("complete_task", u, task_id, 302,
                                 <<Call("commit", task_id, "ok")>>), "success")

\* ------------------------------------------------------------- flashcards
\* POST /add_flashcard
add_flashcard(u, question) ==
  /\ Accept
  /\ flashcards' = (NextId(flashcards) :> [user_id |-> u, question |-> question])
                     @@ flashcards
  /\ last' = Flashed(Req("add_flashcard", u, NextId(flashcards), 302,
                         <<Call("commit", NextId(flashcards), "ok")>>), "success")
  /\ UNCHANGED <<users, tasks, categories, summaries, events, nextEventId>>

\* POST /edit_flashcard/<flashcard_id>
edit_flashcard(u, flashcard_id, question) ==
  /\ Accept
  /\ UNCHANGED <<users, tasks, categories, summaries, events, nextEventId>>
  /\ IF flashcard_id \notin DOMAIN flashcards
     THEN /\ last' = Req("edit_flashcard", u, flashcard_id, 404, <<>>)
          /\ UNCHANGED flashcards
     ELSE IF ~Owns(u, flashcards[flashcard_id])
     THEN /\ last' = Flashed(Req("edit_flashcard", u, flashcard_id, 302, <<>>),
                             "danger")
          /\ UNCHANGED flashcards
     ELSE /\ flashcards' = [flashcards EXCEPT ![flashcard_id].question = question]
          /\ last' = Flashed(Req("edit_flashcard", u, flashcard_id, 302,
                                 <<Call("commit", flashcard_id, "ok")>>), "success")

\* POST /delete_flashcard/<flashcard_id>
delete_flashcard(u, flashcard_id) ==
  /\ Accept
  /\ UNCHANGED <<users, tasks, categories, summaries, events, nextEventId>>
  /\ IF flashcard_id \notin DOMAIN flashcards
     THEN /\ last' = Req("delete_flashcard", u, flashcard_id, 404, <<>>)
          /\ UNCHANGED flashcards
     ELSE IF ~Owns(u, flashcards[flashcard_id])
     THEN /\ last' = Flashed(Req("delete_flashcard", u, flashcard_id, 302, <<>>),
                             "danger")
          /\ UNCHANGED flashcards
     ELSE /\ flashcards' = [f \in DOMAIN flashcards \ {flashcard_id} |->
                              flashcards[f]]
          /\ last' = Flashed(Req("delete_flashcard", u, flashcard_id, 302,
                                 <<Call("db_delete", flashcard_id, "ok")>>),
                             "success")

\* -------------------------------------------------------------- summaries
\* POST /upload_summary with a file whose text is extracted
upload_summary(u) ==
  /\ Accept
  /\ summaries' = (NextId(summaries) :> [user_id |-> u]) @@ summaries
  /\ last' = Flashed(Req("upload_summary", u, NextId(summaries), 302,
                         <<Call("commit", NextId(summaries), "ok")>>), "success")
  /\ UNCHANGED <<users, tasks, categories, flashcards, events, nextEventId>>

\* POST /delete_summary/<summary_id>
delete_summary(u, summary_id) ==
  /\ Accept
  /\ UNCHANGED <<users, tasks, categories, flashcards, events, nextEventId>>
  /\ IF summary_id \notin DOMAIN summaries
     THEN /\ last' = Req("delete_summary", u, summary_id, 404, <<>>)
          /\ UNCHANGED summaries
     ELSE IF ~Owns(u, summaries[summary_id])
     THEN /\ last' = Flashed(Req("delete_summary", u, summary_id, 302, <<>>),
                             "danger")
          /\ UNCHANGED summaries
     ELSE /\ summaries' = [x \in DOMAIN summaries \ {summary_id} |->
                             summaries[x]]
          /\ last' = Flashed(Req("delete_summary", u, summary_id, 302,
                                 <<Call("db_delete", summary_id, "ok")>>),
                             "success")

\* ------------------------------------------------- calendar connection
\* GET /oauth2callback: flow.fetch_token raises when the grant is refused
oauth2callback(u, fetch_ok) ==
  /\ Accept
  /\ UNCHANGED <<tasks, categories, flashcards, summaries, events, nextEventId>>
  /\ IF fetch_ok
     THEN /\ users' = [users EXCEPT ![u] = Connected]
          /\ last' = Flashed(Req("oauth2callback", u, None, 302,
                                 <<Call("commit", u, "ok")>>), "success")
     ELSE /\ UNCHANGED users
          /\ last' = Req("oauth2callback", u, None, 500, <<>>)

\* GET /disconnect_google
disconnect_google(u) ==
  /\ Accept
  /\ users' = [users EXCEPT ![u] = Disconnected]
  /\ last' = Flashed(Req("disconnect_google", u, None, 302,
                         <<Call("commit", u, "ok")>>), "info")
  /\ UNCHANGED <<tasks, categories, flashcards, summaries, events, nextEventId>>

\* how get_week_events and get_events_for_month end as seen by their
\* caller: they return, or an exception leaves them
ListOutcomes == {"ok", "Exception"}

\* a list call of the adapter (get_upcoming_events; get_week_events and
\* get_events_for_month follow it): HttpError is caught and [] returned,
\* any other exception leaves the function
ListCall(kind, out) ==
  [raised |-> (out = "Exception"), log |-> <<Call(kind, None, out)>>]

\* datetime.now() of a schedule request
ScheduleClock == {9, 12}

\* the ids in a set as a sequence, smallest key first (ties by id)
RECURSIVE OrderedBy(_, _)
OrderedBy(S, key) ==
  IF S = {} THEN <<>>
  ELSE LET m == CHOOSE x \in S :
                  \A y \in S : key[x] < key[y] \/ (key[x] = key[y] /\ x <= y)
       IN  <<m>> \o OrderedBy(S \ {m}, key)

\* get_upcoming_events: the events of the user's calendar that end after
\* now, ordered by start time; each is the raw event, whose 'start' is a
\* dict
UpcomingFrom(u, now) ==
  LET ids == {e \in DOMAIN events :
                /\ events[e].owner = u
                /\ fromisoformat(events[e].end.dateTime) > now}
      key == [e \in ids |-> fromisoformat(events[e].start.dateTime)]
      order == OrderedBy(ids, key)
  IN  [i \in 1..Len(order) |->
         [remote |-> TRUE, id |-> order[i], start |-> events[order[i]].start]]

\* get_week_events: the events of the user's calendar, each with its id
WeekEvents(u) ==
  LET ids == {e \in DOMAIN events : events[e].owner = u}
      order == OrderedBy(ids, [e \in ids |-> e])
  IN  [i \in 1..Len(order) |-> [remote |-> TRUE, id |-> order[i]]]

\* synced_event_ids of schedule: the event ids on the user's tasks
SyncedEventIds(u) ==
  {tasks[t].google_event_id :
     t \in {x \in DOMAIN tasks : /\ tasks[x].user_id = u
                                 /\ tasks[x].google_event_id /= None}}

\* [e for e in events if e.get('id') not in synced_event_ids]
NotSynced(list, u) ==
  SelectSeq(list, LAMBDA e : e.id \notin SyncedEventIds(u))

\* the calls schedule makes inside its try block, in order, up to the
\* first one that raises, and the lists the block leaves behind: an
\* exception leaves what was assigned before it, unfiltered
ScheduleCalls(u, now, out_week, out_month, out_upcoming) ==
  LET w == ListCall("list_week", out_week)
      m == ListCall("list_month", out_month)
      p == ListCall("list_upcoming", out_upcoming)
  IN  IF w.raised
      THEN [raised |-> TRUE, log |-> w.log, week |-> <<>>, upcoming |-> <<>>]
      ELSE IF m.raised
      THEN [raised |-> TRUE, log |-> w.log \o m.log,
            week |-> WeekEvents(u), upcoming |-> <<>>]
      ELSE IF p.raised
      THEN [raised |-> TRUE, log |-> w.log \o m.log \o p.log,
            week |-> WeekEvents(u), upcoming |-> <<>>]
      ELSE [raised |-> FALSE, log |-> w.log \o m.log \o p.log,
            week |-> NotSynced(WeekEvents(u), u),
            upcoming |-> NotSynced(IF out_upcoming = "ok"
                                   THEN UpcomingFrom(u, now) ELSE <<>>, u)]

\* the user's tasks due within the next 7 days, in the order of the query
\* (due date ascending), in event format: 'start' is an ISO string
LocalUpcoming(u, now) ==
  LET ids == {t \in DOMAIN tasks :
                /\ tasks[t].user_id = u
                /\ tasks[t].due_date /= None
                /\ now <= tasks[t].due_date
                /\ tasks[t].due_date <= now + 7 * OneDay}
      order == OrderedBy(ids, [t \in ids |-> tasks[t].due_date])
  IN  [i \in 1..Len(order) |->
         [remote |-> FALSE, id |-> order[i],
          start |-> isoformat(tasks[order[i]].due_date)]]

\* upcoming_events.sort(key=lambda x: x['start']) compares the keys of a
\* list of two or more entries, and a dict has no order: the comparison
\* raises TypeError
SortRaises(list) == Len(list) >= 2 /\ \E i \in DOMAIN list : list[i].remote

\* the order of ISO strings of one format
StringLess(a, b) == a[1] < b[1] \/ (a[1] = b[1] /\ a[2] < b[2])

\* list.sort on string keys: a stable sort
RECURSIVE SortByStart(_)
SortByStart(list) ==
  IF Len(list) <= 1 THEN list
  ELSE LET rest == SortByStart(Tail(list))
           x == Head(list)
           before == {i \in DOMAIN rest : StringLess(rest[i].start, x.start)}
           k == Cardinality(before)
       IN  SubSeq(rest, 1, k) \o <<x>> \o SubSeq(rest, k + 1, Len(rest))

\* an except block that clears the token and leaves the flag set
ExpiredConnection_KeepsFlag(row) == [row EXCEPT !.google_token = NoToken]

\* an except block that clears the flag and leaves the token stored
ExpiredConnection_KeepsToken(row) ==
  [row EXCEPT !.calendar_sync_enabled = FALSE]

\* the except block of schedule: token and flag are cleared
ExpiredConnection(row) ==
  [row EXCEPT !.google_token = NoToken, !.calendar_sync_enabled = FALSE]

\* GET /schedule: the calendar block, then the merge of the local tasks
\* into the upcoming list and the sort; the page carries the week list and
\* the upcoming list
schedule(u) ==
  LET Page(now, code, log, week, remote_upcoming) ==
        LET merged == remote_upcoming \o LocalUpcoming(u, now)
        IN  IF SortRaises(merged)
            THEN Req("schedule", u, None, 500, log)
            ELSE [Req("schedule", u, None, code, log) EXCEPT
                    !.week = week, !.upcoming = SortByStart(merged)]
  IN
  /\ Accept
  /\ UNCHANGED <<tasks, categories, flashcards, summaries, events, nextEventId>>
  /\ \E now \in ScheduleClock :
     IF users[u].calendar_sync_enabled
     THEN \E build_ok \in BOOLEAN :
          IF get_calendar_service(u, build_ok)
          THEN \E out_week \in ListOutcomes, out_month \in ListOutcomes,
                  out_upcoming \in Outcomes :
               LET r == ScheduleCalls(u, now, out_week, out_month, out_upcoming)
               IN  IF r.raised
                   THEN \* except Exception: disconnect, warn the user
                        /\ users' = [users EXCEPT
                                        ![u] = ExpiredConnection(users[u])]
                        /\ last' = Flashed(
                                     Page(now, 200,
                                          r.log \o <<Call("commit", u, "ok")>>,
                                          r.week, r.upcoming),
                                     "warning")
                   ELSE /\ UNCHANGED users
                        /\ last' = Page(now, 200, r.log, r.week, r.upcoming)
          ELSE /\ UNCHANGED users
               /\ last' = Page(now, 200, NoService(u), <<>>, <<>>)
     ELSE /\ UNCHANGED users
          /\ last' = Page(now, 200, <<>>, <<>>, <<>>)

\* GET /api/calendar/week
api_week_events(u) ==
  /\ Accept
  /\ UNCHANGED <<users, tasks, categories, flashcards, summaries, events,
                 nextEventId>>
  /\ IF ~users[u].calendar_sync_enabled
     THEN last' = Req("api_week_events", u, None, 400, <<>>)
     ELSE \E build_ok \in BOOLEAN :
          IF ~get_calendar_service(u, build_ok)
          THEN last' = Req("api_week_events", u, None, 500, NoService(u))
          ELSE \E out \in ListOutcomes :
               LET r == ListCall("list_week", out)
               IN  last' = Req("api_week_events", u, None,
                               IF r.raised THEN 500 ELSE 200, r.log)

\* the event POST /api/calendar/event inserts: the payload's title,
\* location and window, the account's default reminders
ApiEvent(u, title, location) ==
  [owner |-> u, summary |-> title, description |-> "",
   start |-> EventTime(10), end |-> EventTime(12),
   location |-> location, reminders |-> "default"]

\* POST /api/calendar/event
api_create_event(u, title, location) ==
  /\ Accept
  /\ UNCHANGED <<users, tasks, categories, flashcards, summaries>>
  /\ IF ~users[u].calendar_sync_enabled
     THEN /\ last' = Req("api_create_event", u, None, 400, <<>>)
          /\ UNCHANGED <<events, nextEventId>>
     ELSE \E build_ok \in BOOLEAN :
          IF ~get_calendar_service(u, build_ok)
          THEN /\ last' = Req("api_create_event", u, None, 500, NoService(u))
               /\ UNCHANGED <<events, nextEventId>>
          ELSE \E out \in Outcomes :
               IF out = "ok"
               THEN /\ events' = (nextEventId :> ApiEvent(u, title, location))
                                   @@ events
                    /\ nextEventId' = nextEventId + 1
                    /\ last' = Req("api_create_event", u, nextEventId, 200,
                                   <<Call("insert", nextEventId, "ok")>>)
               ELSE \* except Exception: every failure is answered with a 500
                    /\ UNCHANGED <<events, nextEventId>>
                    /\ last' = Req("api_create_event", u, None, 500,
                                   <<Call("insert", None, out)>>)

\* POST /sync_task_to_calendar/<task_id>
sync_task_to_calendar(u, task_id) ==
  LET task == tasks[task_id]
      committed == <<Call("commit", task_id, "ok")>>
  IN
  /\ Accept
  /\ UNCHANGED <<users, categories, flashcards, summaries>>
  /\ IF task_id \notin DOMAIN tasks
     THEN /\ last' = Req("sync_task_to_calendar", u, task_id, 404, <<>>)
          /\ UNCHANGED <<tasks, events, nextEventId>>
     ELSE IF ~Owns(u, task)
     THEN /\ last' = Req("sync_task_to_calendar", u, task_id, 403, <<>>)
          /\ UNCHANGED <<tasks, events, nextEventId>>
     ELSE IF ~users[u].calendar_sync_enabled
     THEN /\ last' = Req("sync_task_to_calendar", u, task_id, 400, <<>>)
          /\ UNCHANGED <<tasks, events, nextEventId>>
     ELSE \E build_ok \in BOOLEAN :
          IF ~get_calendar_service(u, build_ok)
          THEN /\ last' = Req("sync_task_to_calendar", u, task_id, 500,
                          NoService(u))
               /\ UNCHANGED <<tasks, events, nextEventId>>
          ELSE IF task.google_event_id /= None
          THEN \E out_get \in Outcomes, out_update \in Outcomes :
               LET r == update_calendar_event(u, task.google_event_id, task,
                                              out_get, out_update)
               IN  /\ events' = r.events
                   /\ UNCHANGED <<tasks, nextEventId>>
                   /\ last' = Req("sync_task_to_calendar", u, task_id,
                                  IF r.ret THEN 200 ELSE 500,
                                  IF r.ret THEN r.log \o committed ELSE r.log)
          ELSE \E out \in Outcomes, now \in Clock :
               LET r == create_calendar_event(u, task, now, out)
               IN  /\ events' = r.events
                   /\ nextEventId' = r.next
                   /\ IF r.ret /= None
                      THEN /\ tasks' = [tasks EXCEPT
                                          ![task_id].google_event_id = r.ret,
                                          ![task_id].synced_to_calendar = TRUE]
                           /\ last' = Req("sync_task_to_calendar", u, task_id,
                                          200, r.log \o committed)
                      ELSE /\ UNCHANGED tasks
                           /\ last' = Req("sync_task_to_calendar", u, task_id,
                                          500, r.log)

\* POST /remove_task_from_calendar/<task_id>
remove_task_from_calendar(u, task_id) ==
  LET task == tasks[task_id]
  IN
  /\ Accept
  /\ UNCHANGED <<users, categories, flashcards, summaries, nextEventId>>
  /\ IF task_id \notin DOMAIN tasks
     THEN /\ last' = Req("remove_task_from_calendar", u, task_id, 404, <<>>)
          /\ UNCHANGED <<tasks, events>>
     ELSE IF ~Owns(u, task)
     THEN /\ last' = Req("remove_task_from_calendar", u, task_id, 403, <<>>)
          /\ UNCHANGED <<tasks, events>>
     ELSE IF task.google_event_id = None
     THEN /\ last' = Req("remove_task_from_calendar", u, task_id, 400, <<>>)
          /\ UNCHANGED <<tasks, events>>
     ELSE \E build_ok \in BOOLEAN :
          IF ~get_calendar_service(u, build_ok)
          THEN /\ last' = Req("remove_task_from_calendar", u, task_id, 500,
                          NoService(u))
               /\ UNCHANGED <<tasks, events>>
          ELSE \E out \in Outcomes :
               LET r == delete_calendar_event(u, task.google_event_id, out)
               IN  /\ events' = r.events
                   /\ IF r.ret
                      THEN /\ tasks' = [tasks EXCEPT
                                          ![task_id].google_event_id = None,
                                          ![task_id].synced_to_calendar = FALSE]
                           /\ last' = Req("remove_task_from_calendar", u,
                                          task_id, 200,
                                          r.log \o <<Call("commit", task_id, "ok")>>)
                      ELSE \* 'Failed to remove', unless the call raised
                           /\ UNCHANGED tasks
                           /\ last' = WithArg(
                                        Req("remove_task_from_calendar", u,
                                            task_id, 500, r.log),
                                        IF r.raised THEN ""
                                        ELSE "Failed to remove")

\* request.get_json() of /update_calendar_event/<event_id>
Payloads ==
  { [summary |-> "t2", description |-> Absent, location |-> Absent],
    [summary |-> Absent, description |-> Absent, location |-> "L1"],
    [summary |-> "t1", description |-> "d1", location |-> ""] }

\* STEP 4 of update_calendar_event_route: the keys present are written
PatchedEvent(event, data) ==
  [event EXCEPT
     !.summary = IF data.summary /= Absent THEN data.summary ELSE @,
     !.description = IF data.description /= Absent THEN data.description ELSE @,
     !.location = IF data.location /= Absent THEN data.location ELSE @]

\* POST /update_calendar_event/<event_id>: every exception is answered
\* with a 500
update_calendar_event_route(u, event_id) ==
  /\ Accept
  /\ UNCHANGED <<users, tasks, categories, flashcards, summaries, nextEventId>>
  /\ \E build_ok \in BOOLEAN :
     IF ~get_calendar_service(u, build_ok)
     THEN /\ last' = Req("update_calendar_event_route", u, event_id, 500,
                          NoService(u))
          /\ UNCHANGED events
     ELSE \E out_get \in Outcomes, out_update \in Outcomes :
          LET g == Answer(out_get, InCalendar(u, event_id))
          IN  IF g /= "ok"
              THEN /\ last' = Req("update_calendar_event_route", u, event_id,
                                  500, <<Call("get", event_id, g)>>)
                   /\ UNCHANGED events
              ELSE IF out_update /= "ok"
              THEN /\ last' = Req("update_calendar_event_route", u, event_id,
                                  500, <<Call("get", event_id, "ok"),
                                         Call("update", event_id, out_update)>>)
                   /\ UNCHANGED events
              ELSE \E data \in Payloads :
                   /\ events' = [events EXCEPT ![event_id] =
                                   PatchedEvent(events[event_id], data)]
                   /\ last' = WithData(
                                Req("update_calendar_event_route", u, event_id,
                                    200, <<Call("get", event_id, "ok"),
                                           Call("update", event_id, "ok")>>),
                                data)

\* POST /delete_calendar_event/<event_id>
delete_calendar_event_route(u, event_id) ==
  /\ Accept
  /\ UNCHANGED <<users, tasks, categories, flashcards, summaries, nextEventId>>
  /\ \E build_ok \in BOOLEAN :
     IF ~get_calendar_service(u, build_ok)
     THEN /\ last' = Req("delete_calendar_event_route", u, event_id, 500,
                          NoService(u))
          /\ UNCHANGED events
     ELSE \E out \in Outcomes :
          LET r == delete_calendar_event(u, event_id, out)
          IN  /\ events' = r.events
              /\ last' = Req("delete_calendar_event_route", u, event_id,
                             IF r.ret THEN 200 ELSE 500, r.log)

\* --------------------------------------- sync_calendar_events_to_tasks
\* an RFC 3339 string as the service writes it, in tokens: the date, 'T',
\* the time of day
IsoTokens(d) ==
  <<"Y", "-", "M", "-", ToString(d \div 24), "T", ToString(d % 24)>>
\* the date of an all-day event
DateTokens(d) == <<"Y", "-", "M", "-", ToString(d \div 24)>>
\* a key the dict does not carry, or carries as ''
NoString == <<>>

\* the 'start' dicts of a remote event that starts at d: the time in UTC
\* ('Z'), with a positive offset, with fractional seconds and a negative
\* offset, an all-day date, and no start at all
StartsOf(d) ==
  { [dateTime |-> IsoTokens(d) \o <<"Z">>, date |-> NoString],
    [dateTime |-> IsoTokens(d) \o <<"+", "z">>, date |-> NoString],
    [dateTime |-> IsoTokens(d) \o <<".", "f", "-", "z">>, date |-> NoString],
    [dateTime |-> NoString, date |-> DateTokens(d)],
    [dateTime |-> NoString, date |-> NoString] }

\* an event dict of the list handed to sync_calendar_events_to_tasks
RemoteEvent(id, event, start) ==
  [id |-> id, summary |-> event.summary, description |-> event.description,
   start |-> start]

\* the lists sync_calendar_events_to_tasks is called with: up to two
\* entries, each an event of the user's calendar under one of its 'start'
\* dicts or an event without an id; an entry may be repeated
ImportLists(u) ==
  LET ids == {e \in DOMAIN events : events[e].owner = u}
      entries ==
        UNION {{RemoteEvent(e, events[e], st) :
                  st \in StartsOf(fromisoformat(events[e].start.dateTime))} :
               e \in ids}
          \cup {RemoteEvent(None, ApiEvent(u, "t1", ""),
                            [dateTime |-> IsoTokens(10) \o <<"Z">>,
                             date |-> NoString])}
  IN  {<<>>} \cup {<<x>> : x \in entries}
        \cup {<<x, y>> : x \in entries, y \in entries}

\* `sep in s`
Has(s, sep) == \E i \in DOMAIN s : s[i] = sep

\* s.split(sep)[0]
Before(s, sep) ==
  IF Has(s, sep)
  THEN SubSeq(s, 1, (CHOOSE i \in DOMAIN s :
                       s[i] = sep /\ \A j \in 1..(i - 1) : s[j] /= sep) - 1)
  ELSE s

\* s.split(sep, maxsplit)[-1]: what follows the last separator split at
LastPiece(s, sep, maxsplit) ==
  LET at == {i \in DOMAIN s : s[i] = sep}
      used == {i \in at : Cardinality({j \in at : j <= i}) <= maxsplit}
  IN  IF used = {} THEN s ELSE SubSeq(s, Max(used) + 1, Len(s))

\* s.replace(tok, '')
Without(s, tok) == SelectSeq(s, LAMBDA c : c /= tok)

\* the numerals of a day or an hour field
Numerals == {ToString(n) : n \in 0..23}
NumberOf(tok) == CHOOSE n \in 0..23 : ToString(n) = tok

\* datetime.strptime(s, '%Y-%m-%dT%H:%M:%S') and, without a time,
\* datetime.strptime(s, '%Y-%m-%d'): ValueError unless the whole string
\* matches
strptime(s, with_time) ==
  LET date_ok == /\ Len(s) >= 5
                 /\ SubSeq(s, 1, 4) = <<"Y", "-", "M", "-">>
                 /\ s[5] \in Numerals
  IN  IF with_time
      THEN IF date_ok /\ Len(s) = 7 /\ s[6] = "T" /\ s[7] \in Numerals
           THEN [ok |-> TRUE, value |-> NumberOf(s[5]) * 24 + NumberOf(s[7])]
           ELSE [ok |-> FALSE, value |-> None]
      ELSE IF date_ok /\ Len(s) = 5
           THEN [ok |-> TRUE, value |-> NumberOf(s[5]) * 24]
           ELSE [ok |-> FALSE, value |-> None]

\* routes.py:72-86: the start string as a naive datetime; ok is false when
\* the parse raises
ParseStart(due_date_str) ==
  LET zoned == IF Has(due_date_str, "+")
               THEN LastPiece(Before(due_date_str, "+"), "-", 3)
               ELSE Without(due_date_str, "Z")
      date_str_clean == IF Has(zoned, ".") THEN Before(zoned, ".") ELSE zoned
  IN  IF Has(due_date_str, "T")
      THEN strptime(date_str_clean, TRUE)
      ELSE strptime(due_date_str, FALSE)

\* a Task row made for an event that carries the event id and is not
\* flagged as synced
ImportedTask_NotFlagged(u, event, due_date) ==
  [user_id |-> u, title |-> event.summary, description |-> event.description,
   due_date |-> due_date, category_id |-> None,
   is_complete |-> FALSE, status |-> "todo",
   google_event_id |-> event.id, synced_to_calendar |-> FALSE]

\* a Task row made for an event that does not carry the event id
ImportedTask_NoEventId(u, event, due_date) ==
  [user_id |-> u, title |-> event.summary, description |-> event.description,
   due_date |-> due_date, category_id |-> None,
   is_complete |-> FALSE, status |-> "todo",
   google_event_id |-> None, synced_to_calendar |-> FALSE]

\* the Task row made for an event (routes.py:89-98)
ImportedTask(u, event, due_date) ==
  [user_id |-> u, title |-> event.summary, description |-> event.description,
   due_date |-> due_date, category_id |-> None,
   is_complete |-> FALSE, status |-> "todo",
   google_event_id |-> event.id, synced_to_calendar |-> TRUE]

\* an import that makes a task for an event whatever the tasks there are
Skips_Never(rows, u, event) == event.id = None

\* the two `continue`s at the head of the loop: an event without an id,
\* and an event whose id a task of the user already carries (the query
\* sees the rows added earlier in the loop: the session flushes before it)
Skips(rows, u, event) ==
  \/ event.id = None
  \/ \E t \in DOMAIN rows :
        rows[t].google_event_id = event.id /\ rows[t].user_id = u

\* the loop of sync_calendar_events_to_tasks
RECURSIVE ImportEvents(_, _, _)
ImportEvents(rows, u, calendar_events) ==
  IF calendar_events = <<>> THEN rows
  ELSE LET event == Head(calendar_events)
           due_date_str == IF event.start.dateTime /= NoString
                           THEN event.start.dateTime ELSE event.start.date
           due_date == ParseStart(due_date_str)
       IN  IF Skips(rows, u, event) \/ due_date_str = NoString \/ ~due_date.ok
           THEN ImportEvents(rows, u, Tail(calendar_events))
           ELSE ImportEvents(
                  (NextId(rows) :> ImportedTask(u, event, due_date.value))
                    @@ rows,
                  u, Tail(calendar_events))

\* sync_calendar_events_to_tasks(calendar_events, user)
sync_calendar_events_to_tasks(u, calendar_events) ==
  /\ Accept
  /\ tasks' = ImportEvents(tasks, u, calendar_events)
  /\ last' = [Req("sync_calendar_events_to_tasks", u, None, 0,
                  <<Call("commit", None, "ok")>>)
                EXCEPT !.imported = calendar_events]
  /\ UNCHANGED <<users, categories, flashcards, summaries, events, nextEventId>>

\* ---------------------------------------------------------- specification
Next ==
  \/ \E u \in Users, t \in Targets(tasks), s \in PostedStatus :
       update_task_status(u, t, s)
  \/ \E u \in Users, form \in TaskForms, cin \in CategoryInputs :
       add_task(u, form, cin)
  \/ \E u \in Users, t \in Targets(tasks) : edit_task(u, t)
  \/ \E u \in Users, t \in Targets(tasks) : delete_task(u, t)
  \/ \E u \in Users, t \in Targets(tasks) : complete_task(u, t)
  \/ \E u \in Users, q \in Questions : add_flashcard(u, q)
  \/ \E u \in Users, f \in Targets(flashcards), q \in Questions :
       edit_flashcard(u, f, q)
  \/ \E u \in Users, f \in Targets(flashcards) : delete_flashcard(u, f)
  \/ \E u \in Users : upload_summary(u)
  \/ \E u \in Users, x \in Targets(summaries) : delete_summary(u, x)
  \/ \E u \in Users, ok \in BOOLEAN : oauth2callback(u, ok)
  \/ \E u \in Users : disconnect_google(u)
  \/ \E u \in Users : schedule(u)
  \/ \E u \in Users : api_week_events(u)
  \/ \E u \in Users, loc \in Locations : api_create_event(u, "t1", loc)
  \/ \E u \in Users, t \in Targets(tasks) : sync_task_to_calendar(u, t)
  \/ \E u \in Users, t \in Targets(tasks) : remove_task_from_calendar(u, t)
  \/ \E u \in Users, e \in EventTargets : update_calendar_event_route(u, e)
  \/ \E u \in Users, e \in EventTargets : delete_calendar_event_route(u, e)

Spec == Init /\ [][Next]_vars

\* the routes together with the helper sync_calendar_events_to_tasks, which
\* no route of this revision calls
NextWithImport ==
  \/ Next
  \/ \E u \in Users : \E calendar_events \in ImportLists(u) :
       sync_calendar_events_to_tasks(u, calendar_events)

SpecWithImport == Init /\ [][NextWithImport]_vars

\* ------------------------------------------- add_task, thread by thread
\* add_task as the threaded server runs it: each request has a session of
\* its own, reads the committed rows, and writes through the one write
\* lock of the SQLite file, which a session holds from its first INSERT to
\* its commit.  Calendar sync is off for the users of these runs.

\* a session holds the write lock: it has flushed and not yet committed
HoldsLock(w) == requests[w].pc = "commit" /\ requests[w].flushed
LockFree(w) == \A v \in Threads \ {w} : ~HoldsLock(v)

\* the response of a finished request
Finished(w, code, task) ==
  [requests EXCEPT ![w].pc = "done", ![w].code = code, ![w].task = task,
                   ![w].flushed = FALSE]

\* the frame of a step of one thread
ThreadFrame == UNCHANGED <<users, flashcards, summaries, events, nextEventId>>

\* a POST /add_task arrives at a free thread; the form is validated
\* (routes.py:191-193)
add_task_validate(w, u, form, other) ==
  /\ requests[w].pc \in {"idle", "done"}
  /\ ~users[u].calendar_sync_enabled
  /\ nreq < MaxRequests
  /\ nreq' = nreq + 1
  /\ ThreadFrame
  /\ UNCHANGED <<tasks, categories>>
  /\ IF ~Validates(form)
     THEN /\ requests' = [requests EXCEPT ![w] =
                            [Idle EXCEPT !.pc = "done", !.user = u,
                                         !.other = other, !.code = 200]]
          /\ last' = Posted(form, [selected |-> None, other |-> other],
                            "add_task", u, None, 200, <<>>)
     ELSE /\ requests' = [requests EXCEPT ![w] =
                            [Idle EXCEPT
                               !.pc = IF HasCustomCategory(other)
                                      THEN "lookup" ELSE "commit",
                               !.user = u, !.title = form.title,
                               !.other = other]]
          /\ UNCHANGED last

\* Category.query.filter_by(user_id, name).first() (routes.py:204-207):
\* the session sees the committed rows
add_task_lookup(w) ==
  LET r == requests[w]
      found == CategoryOf(r.user, NormalizeName(r.other))
  IN
  /\ r.pc = "lookup"
  /\ ThreadFrame
  /\ UNCHANGED <<tasks, categories, last, nreq>>
  /\ requests' = [requests EXCEPT
                    ![w].looked_up = TRUE,
                    ![w].pc = IF found /= {} THEN "commit" ELSE "flush",
                    ![w].found = IF found /= {}
                                 THEN CHOOSE c \in found : TRUE ELSE None,
                    ![w].category_id = IF found /= {}
                                       THEN CHOOSE c \in found : TRUE
                                       ELSE None]

\* db.session.add(category); db.session.flush() (routes.py:216-217): the
\* INSERT takes the write lock, waiting while another session holds it.
\* unique_category_per_user (models.py:115) rejects a second row for
\* (user_id, name): IntegrityError leaves the handler, the request ends in
\* a 500 and the session is rolled back
add_task_flush(w) ==
  LET r == requests[w]
      name == NormalizeName(r.other)
  IN
  /\ r.pc = "flush"
  /\ LockFree(w)
  /\ ThreadFrame
  /\ UNCHANGED <<tasks, categories, nreq>>
  /\ IF CategoryOf(r.user, name) /= {}
     THEN /\ requests' = Finished(w, 500, None)
          /\ last' = Posted([title |-> r.title],
                            [selected |-> None, other |-> r.other],
                            "add_task", r.user, None, 500,
                            <<Call("flush", None, "IntegrityError")>>)
     ELSE /\ requests' = [requests EXCEPT
                            ![w].pc = "commit", ![w].flushed = TRUE,
                            ![w].category_id = NextId(categories)]
          /\ UNCHANGED last

\* Task(...), db.session.add(new_task), db.session.commit()
\* (routes.py:230-242): the flushed Category row and the Task row become
\* visible together and the lock is released
add_task_commit(w) ==
  LET r == requests[w]
      tid == NextId(tasks)
      form == [title |-> r.title, description |-> "", due_date |-> None]
  IN
  /\ r.pc = "commit"
  /\ LockFree(w)
  /\ ThreadFrame
  /\ UNCHANGED nreq
  /\ categories' = IF r.flushed
                   THEN (r.category_id :>
                           [user_id |-> r.user,
                            name |-> NormalizeName(r.other)]) @@ categories
                   ELSE categories
  /\ tasks' = (tid :> NewTask(r.user, form, r.category_id)) @@ tasks
  /\ requests' = Finished(w, 302, tid)
  /\ last' = Flashed(Posted(form, [selected |-> None, other |-> r.other],
                            "add_task", r.user, tid, 302,
                            <<Call("commit", tid, "ok")>>), "success")

NextThreaded ==
  \/ \E w \in Threads, u \in Users, form \in TaskForms, other \in RawNames :
       add_task_validate(w, u, form, other)
  \/ \E w \in Threads : add_task_lookup(w)
  \/ \E w \in Threads : add_task_flush(w)
  \/ \E w \in Threads : add_task_commit(w)

SpecThreaded == Init /\ [][NextThreaded]_vars

\* ------------------------------------------------------------ properties
\* the request's log holds a call of this kind with this result
Logged(log, kind, result) ==
  \E i \in DOMAIN log : log[i][1] = kind /\ log[i][3] = result

\* the calls that reach the remote calendar service
RemoteKinds ==
  {"insert", "get", "update", "delete",
   "list_week", "list_month", "list_upcoming"}

\* a remote call of the request failed
RemoteFailure(log) ==
  \E i \in DOMAIN log :
     log[i][1] \in RemoteKinds /\ log[i][3] \in {"HttpError", "Exception"}

\* a service was there whenever one was asked for, and every call succeeded
AllCallsSucceed(log) == \A i \in DOMAIN log : log[i][3] = "ok"

\* the Category table holds one row per (user_id, name)
UniqueCategories(table) ==
  \A c1 \in DOMAIN table, c2 \in DOMAIN table :
     (table[c1].user_id = table[c2].user_id /\ table[c1].name = table[c2].name)
       => c1 = c2

\* C1: after every request the Category table holds at most one row per
\* (user, name). An add_task or edit_task request leaves the rows there
\* were as they were and adds at most one row, for the acting user and only
\* under a name that user had no row for; the task of the request references
\* the new row. A name the user already has a row for adds nothing.
C1_OneCategoryPerUserAndName ==
  [][ /\ UniqueCategories(categories')
      /\ \A c \in DOMAIN categories :
            c \in DOMAIN categories' /\ categories'[c] = categories[c]
      /\ LET new == DOMAIN categories' \ DOMAIN categories
         IN  /\ Cardinality(new) <= 1
             /\ new /= {} => last'.op \in {"add_task", "edit_task"}
             /\ \A c \in new :
                  /\ categories'[c].user_id = last'.user
                  /\ ~ \E d \in DOMAIN categories :
                         /\ categories[d].user_id = categories'[c].user_id
                         /\ categories[d].name = categories'[c].name
                  /\ tasks'[last'.target].category_id = c
    ]_vars

\* two tasks of one user reference the single row of a category that an
\* add_task or edit_task request has just resolved
C1_Witness ==
  /\ last.op \in {"add_task", "edit_task"}
  /\ \E c \in DOMAIN categories :
       /\ categories[c].user_id = last.user
       /\ Cardinality({d \in DOMAIN categories :
                         categories[d].name = categories[c].name}) = 1
       /\ Cardinality({t \in DOMAIN tasks :
                         /\ tasks[t].user_id = last.user
                         /\ tasks[t].category_id = c}) >= 2

\* the values a Task's status may take
StatusValues == {"todo", "doing", "done"}

\* C2: after every request, the helper sync_calendar_events_to_tasks
\* included, every Task's status is one of todo, doing, done; an
\* update_task_status request with any other value is answered with an
\* error and leaves every task as it was.
C2_StatusInSet ==
  [][ /\ \A t \in DOMAIN tasks' : tasks'[t].status \in StatusValues
      /\ (last'.op = "update_task_status" /\ last'.arg \notin StatusValues)
           => (last'.code \in {400, 403, 404} /\ tasks' = tasks)
    ]_vars

\* the owner of a task has posted a status outside the set and got a 400
C2_Witness ==
  /\ last.op = "update_task_status"
  /\ last.arg = "archived"
  /\ last.code = 400
  /\ last.target \in DOMAIN tasks
  /\ tasks[last.target].user_id = last.user

\* the request was refused: a 403, or the 'danger' flash and a redirect
Refused(req) == req.code = 403 \/ req.flash = "danger"

\* the requests that name a task, a flashcard, a summary
TaskRequests ==
  {"update_task_status", "edit_task", "delete_task", "complete_task",
   "sync_task_to_calendar", "remove_task_from_calendar"}
FlashcardRequests == {"edit_flashcard", "delete_flashcard"}
SummaryRequests == {"delete_summary"}

\* C3: a request changes or deletes no Task, Flashcard or Summary of a
\* user other than the one who makes it; a request that names a row of
\* another user is refused, makes no remote call and leaves every row and
\* every remote event as it was.
C3_OwnerOnly ==
  [][ LET a == last'.user
          t == last'.target
      IN  /\ \A x \in DOMAIN tasks :
                tasks[x].user_id /= a
                  => (x \in DOMAIN tasks' /\ tasks'[x] = tasks[x])
          /\ \A x \in DOMAIN flashcards :
                flashcards[x].user_id /= a
                  => (x \in DOMAIN flashcards' /\ flashcards'[x] = flashcards[x])
          /\ \A x \in DOMAIN summaries :
                summaries[x].user_id /= a
                  => (x \in DOMAIN summaries' /\ summaries'[x] = summaries[x])
          /\ ( \/ /\ last'.op \in TaskRequests
                  /\ t \in DOMAIN tasks
                  /\ tasks[t].user_id /= a
               \/ /\ last'.op \in FlashcardRequests
                  /\ t \in DOMAIN flashcards
                  /\ flashcards[t].user_id /= a
               \/ /\ last'.op \in SummaryRequests
                  /\ t \in DOMAIN summaries
                  /\ summaries[t].user_id /= a )
               => /\ Refused(last')
                  /\ last'.log = <<>>
                  /\ tasks' = tasks
                  /\ flashcards' = flashcards
                  /\ summaries' = summaries
                  /\ events' = events
    ]_vars

\* a delete_task on another user's task that is linked to a remote event
\* has been refused
C3_Witness ==
  /\ last.op = "delete_task"
  /\ Refused(last)
  /\ last.target \in DOMAIN tasks
  /\ tasks[last.target].user_id /= last.user
  /\ tasks[last.target].google_event_id \in DOMAIN events

\* C4: a delete_task request by the owner on a task with a google_event_id
\* ends with the local row deleted, whatever the remote deletion did, and
\* any remote deletion comes before the local one.
C4_RemoteThenLocalDelete ==
  [][ LET t == last'.target
          log == last'.log
      IN  ( /\ last'.op = "delete_task"
            /\ t \in DOMAIN tasks
            /\ tasks[t].user_id = last'.user
            /\ tasks[t].google_event_id /= None )
            => /\ t \notin DOMAIN tasks'
               /\ \A i \in DOMAIN log, j \in DOMAIN log :
                     (log[i][1] = "delete" /\ log[j][1] = "db_delete") => i < j
    ]_vars

\* C5: an event made for a task with due date D starts at D and ends one
\* hour later, and after a later update for due date D' it starts at D' and
\* ends one hour after D'.
C5_OneHourWindow ==
  [][ LET t == last'.target
          log == last'.log
      IN  \A i \in DOMAIN log :
            ( /\ last'.op \in {"add_task", "edit_task", "sync_task_to_calendar"}
              /\ log[i][1] \in {"insert", "update"}
              /\ log[i][3] = "ok"
              /\ tasks'[t].due_date /= None )
              => LET event == events'[log[i][2]]
                 IN  /\ fromisoformat(event.start.dateTime) = tasks'[t].due_date
                     /\ fromisoformat(event.end.dateTime)
                          = tasks'[t].due_date + 1
    ]_vars

\* an edit_task has moved a linked task to the last hour of the day and
\* the update went through: the event ends on the next day
C5_Witness ==
  /\ last.op = "edit_task"
  /\ Logged(last.log, "update", "ok")
  /\ tasks[last.target].due_date = 23
  /\ tasks[last.target].google_event_id \in DOMAIN events
  /\ events[tasks[last.target].google_event_id].end.dateTime = <<1, 0>>

\* C6: a successful update leaves every other event as it was and keeps
\* the owner and the reminders of the event it writes. Made by
\* update_calendar_event (edit_task, sync_task_to_calendar) it keeps the
\* location as well; made by update_calendar_event_route it keeps start and
\* end, writes each of summary, description and location that the payload
\* carries and keeps each one that the payload does not carry.
C6_UpdateFrame ==
  [][ LET log == last'.log
          data == last'.data
          Patched(given, old) == IF given /= Absent THEN given ELSE old
      IN  \A i \in DOMAIN log :
            (log[i][1] = "update" /\ log[i][3] = "ok")
              => LET e == log[i][2]
                 IN  /\ DOMAIN events' = DOMAIN events
                     /\ \A x \in DOMAIN events \ {e} : events'[x] = events[x]
                     /\ events'[e].owner = events[e].owner
                     /\ events'[e].reminders = events[e].reminders
                     /\ IF last'.op = "update_calendar_event_route"
                        THEN /\ events'[e].start = events[e].start
                             /\ events'[e].end = events[e].end
                             /\ events'[e].summary
                                  = Patched(data.summary, events[e].summary)
                             /\ events'[e].description
                                  = Patched(data.description,
                                            events[e].description)
                             /\ events'[e].location
                                  = Patched(data.location, events[e].location)
                        ELSE events'[e].location = events[e].location
    ]_vars

\* an edit_task has updated an event that had been given a location: the
\* location is still there
C6_Witness ==
  /\ last.op = "edit_task"
  /\ Logged(last.log, "update", "ok")
  /\ tasks[last.target].google_event_id \in DOMAIN events
  /\ events[tasks[last.target].google_event_id].location = "L1"

\* C7: when add_task or sync_task_to_calendar has an event inserted, the
\* id of the new event is the task's google_event_id and synced_to_calendar
\* is true when the request ends; when the insert fails no event is made
\* and the two fields are as they were (unset on the task add_task stored).
C7_EventIdStored ==
  [][ LET t == last'.target
          log == last'.log
      IN  \A i \in DOMAIN log :
            ( /\ last'.op \in {"add_task", "sync_task_to_calendar"}
              /\ log[i][1] = "insert" )
              => IF log[i][3] = "ok"
                 THEN /\ log[i][2] \in DOMAIN events' \ DOMAIN events
                      /\ tasks'[t].google_event_id = log[i][2]
                      /\ tasks'[t].synced_to_calendar
                 ELSE /\ events' = events
                      /\ IF t \in DOMAIN tasks
                         THEN tasks'[t] = tasks[t]
                         ELSE /\ tasks'[t].google_event_id = None
                              /\ ~tasks'[t].synced_to_calendar
    ]_vars

\* sync_task_to_calendar has had an event inserted for a task that had
\* none and the task carries its id
C7_Witness ==
  /\ last.op = "sync_task_to_calendar"
  /\ last.code = 200
  /\ Logged(last.log, "insert", "ok")
  /\ tasks[last.target].google_event_id \in DOMAIN events
  /\ tasks[last.target].synced_to_calendar

\* C8: when a remote call of add_task, edit_task, delete_task or schedule
\* fails, the request still runs to completion, and the task delete_task
\* names is gone.
C8_RemoteFailureNotFatal ==
  ( /\ last.op \in {"add_task", "edit_task", "delete_task", "schedule"}
    /\ RemoteFailure(last.log) )
    => /\ last.code /= 500
       /\ last.op = "delete_task" => last.target \notin DOMAIN tasks

Mirrored(task) ==
  /\ task.google_event_id \in DOMAIN events
  /\ events[task.google_event_id].summary = task.title
  /\ fromisoformat(events[task.google_event_id].start.dateTime) = task.due_date

\* an add_task or edit_task request has completed with its change made,
\* sync is enabled, a service was there and every remote call succeeded, and
\* the task has a due date
CompletedWithDueDate ==
  /\ last.op \in {"add_task", "edit_task"}
  /\ last.code = 302
  /\ last.flash = "success"
  /\ users[last.user].calendar_sync_enabled
  /\ AllCallsSucceed(last.log)
  /\ tasks[last.target].due_date /= None

\* C10 as stated: while sync is enabled and every remote call succeeds,
\* each completed add_task or edit_task that leaves a task with a due date
\* leaves it linked to an event with its title and its due date.
C10_Mirrored == CompletedWithDueDate => Mirrored(tasks[last.target])

\* C10: while sync is enabled and every remote call succeeds, a completed
\* add_task that leaves a task with a due date, and a completed edit_task
\* that leaves a task with a due date and a google_event_id, leave the task
\* linked to an event with its title and its due date; edit_task inserts
\* no event, so a task without a google_event_id is without one after it.
C10_MirroredWhenLinked ==
  /\ ( /\ CompletedWithDueDate
       /\ last.op = "edit_task" => tasks[last.target].google_event_id /= None )
       => Mirrored(tasks[last.target])
  /\ last.op = "edit_task" => ~ \E i \in DOMAIN last.log : last.log[i][1] = "insert"

\* an edit_task has given a linked task another title and the update went
\* through
C10_Witness ==
  /\ CompletedWithDueDate
  /\ last.op = "edit_task"
  /\ Logged(last.log, "update", "ok")
  /\ tasks[last.target].title = "t2"
  /\ Mirrored(tasks[last.target])

\* C13: an add_task request with an empty title is rejected at validation:
\* the form is rendered again, no Task row and no Category row is added,
\* whatever the category fields hold, and no remote call is made.
C13_EmptyTitleRejected ==
  [][ (last'.op = "add_task" /\ last'.arg = "")
        => /\ last'.code = 200
           /\ last'.log = <<>>
           /\ tasks' = tasks
           /\ categories' = categories
           /\ events' = events
           /\ nextEventId' = nextEventId
    ]_vars

\* a form without a title and with a new free-text category name has been
\* posted by a user whose calendar is connected
C13_Witness ==
  /\ last.op = "add_task"
  /\ last.arg = ""
  /\ last.category.other = <<"a">>
  /\ users[last.user].calendar_sync_enabled
  /\ categories = <<>>
  /\ tasks = <<>>

\* the edit was committed
EditCommitted(req) == req.op = "edit_task" /\ Logged(req.log, "commit", "ok")

\* C14: after every committed edit_task the task's category_id is decided
\* by the posted category fields alone: with a free-text name it is the id
\* of the acting user's row for the normalised name, which is the row there
\* was or else one new row; without one it is the selected row's id, or
\* null when nothing is selected.
C14_CategoryReResolved ==
  [][ EditCommitted(last')
        => LET a == last'.user
               cin == last'.category
               cid == tasks'[last'.target].category_id
               had == {c \in DOMAIN categories :
                         /\ categories[c].user_id = a
                         /\ categories[c].name = TitleCase(Strip(cin.other))}
           IN  IF Strip(cin.other) /= <<>>
               THEN /\ cid \in DOMAIN categories'
                    /\ categories'[cid].user_id = a
                    /\ categories'[cid].name = TitleCase(Strip(cin.other))
                    /\ IF had /= {}
                       THEN cid \in had /\ categories' = categories
                       ELSE DOMAIN categories' = DOMAIN categories \cup {cid}
               ELSE /\ cid = cin.selected
                    /\ categories' = categories
    ]_vars

\* the second request, an edit_task without category fields, has been
\* committed for the one task there is, which the first request had put on
\* a new Category row: the task has no category now
C14_Witness ==
  /\ EditCommitted(last)
  /\ nreq = 2
  /\ DOMAIN tasks = {last.target}
  /\ last.category = NoCategoryInput
  /\ tasks[last.target].category_id = None
  /\ \E c \in DOMAIN categories : categories[c].user_id = last.user

\* a name with its letters in lower case
LowerCase(name) == [i \in 1..Len(name) |-> LowerOf[name[i]]]

\* C15: Category names are stored stripped and in title case, per user. No
\* user has two rows whose names differ only in letter case, no name starts
\* or ends with whitespace, and the row a free-text name resolves to is
\* owned by the acting user and carries the typed name up to letter case
\* and surrounding whitespace; the rows of other users play no part.
C15_NormalisedPerUser ==
  [][ /\ \A c \in DOMAIN categories' :
            LET name == categories'[c].name
            IN  /\ name /= <<>>
                /\ name[1] /= Space
                /\ name[Len(name)] /= Space
                /\ name[1] = UpperOf[name[1]]
      /\ \A c1 \in DOMAIN categories', c2 \in DOMAIN categories' :
            ( /\ categories'[c1].user_id = categories'[c2].user_id
              /\ LowerCase(categories'[c1].name) = LowerCase(categories'[c2].name) )
              => c1 = c2
      /\ ( /\ last'.op \in {"add_task", "edit_task"}
           /\ Logged(last'.log, "commit", "ok")
           /\ Strip(last'.category.other) /= <<>> )
           => LET cid == tasks'[last'.target].category_id
              IN  /\ cid \in DOMAIN categories'
                  /\ categories'[cid].user_id = last'.user
                  /\ LowerCase(categories'[cid].name)
                       = LowerCase(Strip(last'.category.other))
    ]_vars

\* two users each own a row of the same name, and one of them has two
\* tasks on the row
C15_Witness ==
  \E c1 \in DOMAIN categories, c2 \in DOMAIN categories :
     /\ categories[c1].user_id /= categories[c2].user_id
     /\ categories[c1].name = categories[c2].name
     /\ Cardinality({t \in DOMAIN tasks : tasks[t].category_id = c1}) = 2

\* the start time of an entry of the upcoming list
StartOf(entry) ==
  IF entry.remote THEN fromisoformat(entry.start.dateTime)
  ELSE fromisoformat(entry.start)

\* C11: every schedule request completes, and the upcoming list of its
\* page, remote events and local tasks together, is in non-decreasing
\* order of start time.
C11_UpcomingSorted ==
  last.op = "schedule"
    => /\ last.code = 200
       /\ \A i \in DOMAIN last.upcoming, j \in DOMAIN last.upcoming :
             i < j => StartOf(last.upcoming[i]) <= StartOf(last.upcoming[j])

\* C12: no remote event whose id is the google_event_id of a task of the
\* acting user is in the week list or the upcoming list of a schedule
\* page.
C12_NoSyncedEventListed ==
  last.op = "schedule"
    => /\ \A i \in DOMAIN last.week :
             last.week[i].id \notin SyncedEventIds(last.user)
       /\ \A i \in DOMAIN last.upcoming :
             last.upcoming[i].remote
               => last.upcoming[i].id \notin SyncedEventIds(last.user)

\* the calls that write to the remote calendar
RemoteWrites == {"insert", "update", "delete"}

\* C16: within one request each remote create, update or delete is issued
\* at most once, whether it succeeds or fails.
C16_NoRetry ==
  \A i \in DOMAIN last.log, j \in DOMAIN last.log :
     (last.log[i][1] \in RemoteWrites /\ last.log[i][1] = last.log[j][1])
       => i = j

\* a delete_task has met an HttpError of the remote deletion and gone on
C16_Witness ==
  /\ last.op = "delete_task"
  /\ Logged(last.log, "delete", "HttpError")
  /\ Logged(last.log, "db_delete", "ok")

\* C17: in remove_task_from_calendar the deletion of an event that is no
\* longer in the user's calendar never succeeds; an HttpError of the
\* deletion is answered with 'Failed to remove' and raises nothing. The
\* task's google_event_id and synced_to_calendar are cleared exactly when
\* the deletion succeeded; after a failure the task row is as it was.
C17_ClearedOnlyOnSuccess ==
  [][ LET t == last'.target
          a == last'.user
          log == last'.log
      IN  \A i \in DOMAIN log :
            (last'.op = "remove_task_from_calendar" /\ log[i][1] = "delete")
              => LET e == tasks[t].google_event_id
                     there == e \in DOMAIN events /\ events[e].owner = a
                 IN  /\ log[i][2] = e
                     /\ ~there => log[i][3] /= "ok"
                     /\ log[i][3] = "HttpError"
                          => (last'.code = 500 /\ last'.arg = "Failed to remove")
                     /\ IF log[i][3] = "ok"
                        THEN /\ tasks' = [tasks EXCEPT
                                            ![t].google_event_id = None,
                                            ![t].synced_to_calendar = FALSE]
                             /\ e \notin DOMAIN events'
                             /\ last'.code = 200
                        ELSE /\ tasks' = tasks
                             /\ events' = events
    ]_vars

\* remove_task_from_calendar has been answered with 'Failed to remove' for
\* a task whose event is gone: the task still carries the event id
C17_Witness ==
  /\ last.op = "remove_task_from_calendar"
  /\ last.arg = "Failed to remove"
  /\ tasks[last.target].google_event_id /= None
  /\ tasks[last.target].google_event_id \notin DOMAIN events
  /\ tasks[last.target].synced_to_calendar

\* C18: a schedule request that has caught a calendar error leaves the
\* user's token cleared and sync disabled. While a user's token is cleared
\* no request of that user issues a remote call, and the user's row stays
\* as it is until an oauth2callback of that user completes, which stores a
\* token and enables sync.
C18_DisabledUntilReconnect ==
  [][ LET a == last'.user
          log == last'.log
      IN  /\ (last'.op = "schedule" /\ last'.flash = "warning")
               => (users'[a].google_token = NoToken
                     /\ ~users'[a].calendar_sync_enabled)
          /\ users[a].google_token = NoToken
               => /\ \A i \in DOMAIN log : log[i][1] \notin RemoteKinds
                  /\ events' = events
                  /\ users'[a] /= users[a]
                       => /\ last'.op = "oauth2callback"
                          /\ last'.code = 302
                          /\ users'[a].google_token /= NoToken
                          /\ users'[a].calendar_sync_enabled
    ]_vars

\* a user whose token is cleared has asked for the removal of a linked
\* task's event: no service, no remote call
C18_Witness ==
  /\ last.op = "remove_task_from_calendar"
  /\ users[last.user].google_token = NoToken
  /\ ~users[last.user].calendar_sync_enabled
  /\ last.target \in DOMAIN tasks
  /\ tasks[last.target].user_id = last.user
  /\ tasks[last.target].google_event_id \in DOMAIN events
  /\ last.log = NoService(last.user)

\* C19: an event inserted for a task without a due date starts one day
\* after the current time and ends one hour after its start, and the
\* task's due_date stays null; sync_task_to_calendar makes such an insert,
\* add_task makes no remote call for a task without a due date.
C19_NoDueDateStartsTomorrow ==
  [][ LET t == last'.target
          log == last'.log
      IN  /\ \A i \in DOMAIN log :
                ( /\ last'.op = "sync_task_to_calendar"
                  /\ log[i][1] = "insert"
                  /\ log[i][3] = "ok"
                  /\ tasks[t].due_date = None )
                  => LET event == events'[log[i][2]]
                         start == fromisoformat(event.start.dateTime)
                     IN  /\ \E now \in Clock : start = now + 24
                         /\ fromisoformat(event.end.dateTime) = start + 1
                         /\ tasks'[t].due_date = None
          /\ ( /\ last'.op = "add_task"
               /\ Logged(log, "commit", "ok")
               /\ tasks'[t].due_date = None )
               => /\ \A i \in DOMAIN log : log[i][1] \notin RemoteKinds
                  /\ events' = events
    ]_vars

\* sync_task_to_calendar has had an event inserted for a task without a
\* due date
C19_Witness ==
  /\ last.op = "sync_task_to_calendar"
  /\ Logged(last.log, "insert", "ok")
  /\ tasks[last.target].due_date = None
  /\ tasks[last.target].google_event_id \in DOMAIN events
  /\ events[tasks[last.target].google_event_id].start.dateTime = <<1, 9>>

\* C20: a committed complete_task negates is_complete of the task it
\* names and a committed update_task_status sets its status; each leaves
\* every other field of the task and every other task as it was, and
\* toggling a task twice gives the task back.
C20_CompletionAndStatusIndependent ==
  [][ LET t == last'.target
      IN  /\ (last'.op = "complete_task" /\ Logged(last'.log, "commit", "ok"))
               => /\ tasks' = [tasks EXCEPT ![t].is_complete = ~tasks[t].is_complete]
                  /\ tasks'[t].status = tasks[t].status
          /\ (last'.op = "update_task_status" /\ last'.code = 200)
               => /\ tasks' = [tasks EXCEPT ![t].status = last'.arg]
                  /\ tasks'[t].is_complete = tasks[t].is_complete
          /\ \A x \in DOMAIN tasks' : Toggled(Toggled(tasks'[x])) = tasks'[x]
    ]_vars

\* a task that was moved to another column and then completed
C20_Witness ==
  /\ last.op = "complete_task"
  /\ Logged(last.log, "commit", "ok")
  /\ tasks[last.target].is_complete
  /\ tasks[last.target].status = "doing"


\* the two sync fields of a task row
SyncFields(task) == <<task.google_event_id, task.synced_to_calendar>>

\* C21: in every state each Task has synced_to_calendar set exactly when
\* its google_event_id is not null. A request changes the two fields of an
\* existing task only as sync_task_to_calendar (both set) or
\* remove_task_from_calendar (both cleared), and a new task has them set
\* only when add_task or sync_calendar_events_to_tasks made it.
C21_SyncedIffEventId ==
  [][ /\ \A t \in DOMAIN tasks' :
            tasks'[t].synced_to_calendar <=> tasks'[t].google_event_id /= None
      /\ \A t \in DOMAIN tasks \cap DOMAIN tasks' :
            SyncFields(tasks'[t]) /= SyncFields(tasks[t])
              => \/ /\ last'.op = "sync_task_to_calendar"
                    /\ last'.target = t
                    /\ SyncFields(tasks[t]) = <<None, FALSE>>
                    /\ tasks'[t].synced_to_calendar
                 \/ /\ last'.op = "remove_task_from_calendar"
                    /\ last'.target = t
                    /\ SyncFields(tasks'[t]) = <<None, FALSE>>
      /\ \A t \in DOMAIN tasks' \ DOMAIN tasks :
            SyncFields(tasks'[t]) /= <<None, FALSE>>
              => last'.op \in {"add_task", "sync_calendar_events_to_tasks"}
    ]_vars

\* a task made by sync_calendar_events_to_tasks for an event of the
\* user's calendar carries the event's id and is flagged as synced
C21_Witness ==
  /\ last.op = "sync_calendar_events_to_tasks"
  /\ \E t \in DOMAIN tasks :
       /\ tasks[t].google_event_id \in DOMAIN events
       /\ tasks[t].synced_to_calendar
       /\ tasks[t].category_id = None
       /\ tasks[t].due_date = 10
       /\ tasks[t].title = "t1"
       /\ tasks[t].description = ""


\* C22: in every state each User has calendar_sync_enabled set exactly
\* when google_token is not null. A completed oauth2callback leaves the
\* acting user with a token and the flag set, disconnect_google and a
\* schedule request that caught a calendar error leave the acting user
\* with neither, and no other request changes a user row.
C22_FlagIffToken ==
  [][ LET a == last'.user
      IN  /\ \A u \in Users :
                users'[u].calendar_sync_enabled
                  <=> users'[u].google_token /= NoToken
          /\ (last'.op = "oauth2callback" /\ last'.code = 302)
               => (users'[a].google_token /= NoToken
                     /\ users'[a].calendar_sync_enabled)
          /\ ( \/ last'.op = "disconnect_google"
               \/ (last'.op = "schedule" /\ last'.flash = "warning") )
               => (users'[a].google_token = NoToken
                     /\ ~users'[a].calendar_sync_enabled)
          /\ \A u \in Users :
                users'[u] /= users[u]
                  => /\ u = a
                     /\ last'.op \in {"oauth2callback", "disconnect_google",
                                      "schedule"}
    ]_vars

\* a user who connected a calendar and whose schedule request then caught
\* a calendar error: the token and the flag are both gone, and a linked
\* task of that user is still there
C22_Witness ==
  /\ last.op = "schedule"
  /\ last.flash = "warning"
  /\ users[last.user].google_token = NoToken
  /\ ~users[last.user].calendar_sync_enabled
  /\ \E t \in DOMAIN tasks :
       tasks[t].user_id = last.user /\ tasks[t].synced_to_calendar


\* the routes that ask for a service without testing the flag first
UntestedRoutes ==
  {"remove_task_from_calendar", "update_calendar_event_route",
   "delete_calendar_event_route"}

\* C23: a request of a user whose calendar_sync_enabled is false issues no
\* remote calendar call and leaves every remote event as it was; in
\* remove_task_from_calendar, update_calendar_event_route and
\* delete_calendar_event_route, which do not test the flag, such a user
\* gets no service from get_calendar_service and is answered with a 500.
C23_NoCallWhenDisabled ==
  [][ LET a == last'.user
          log == last'.log
      IN  ~users[a].calendar_sync_enabled
            => /\ \A i \in DOMAIN log : log[i][1] \notin RemoteKinds
               /\ events' = events
               /\ nextEventId' = nextEventId
               /\ (last'.op \in UntestedRoutes /\ log /= <<>>)
                    => (log = NoService(a) /\ last'.code = 500)
               /\ last'.op \in {"update_calendar_event_route",
                                "delete_calendar_event_route"}
                    => log /= <<>>
    ]_vars

\* a user who has disconnected asks for the deletion of an event of their
\* own calendar: no service, the event stays
C23_Witness ==
  /\ last.op = "delete_calendar_event_route"
  /\ ~users[last.user].calendar_sync_enabled
  /\ last.target \in DOMAIN events
  /\ events[last.target].owner = last.user
  /\ last.log = NoService(last.user)
  /\ last.code = 500


C25_EventIdsLive ==
  \A t \in DOMAIN tasks :
     tasks[t].google_event_id /= None
       => InCalendar(tasks[t].user_id, tasks[t].google_event_id)


\* no two tasks of one user carry the same event id
UniqueEventIds(rows) ==
  \A t1 \in DOMAIN rows, t2 \in DOMAIN rows :
     ( /\ rows[t1].user_id = rows[t2].user_id
       /\ rows[t1].google_event_id /= None
       /\ rows[t1].google_event_id = rows[t2].google_event_id ) => t1 = t2

\* C26: after every request, sync_calendar_events_to_tasks included, no
\* two tasks of one user carry the same event id. An event is inserted for
\* a task only when the task carries no event id, and its id is stored on
\* that task in the same request; sync_task_to_calendar on a task that
\* carries an event id inserts nothing and addresses that event; the event
\* id of a task is given up only together with the deletion of its event.
\* So a task never has two live events made for it.
C26_OneEventPerTask ==
  [][ LET t == last'.target
          log == last'.log
      IN  /\ UniqueEventIds(tasks')
          /\ \A i \in DOMAIN log :
                ( /\ last'.op \in {"add_task", "sync_task_to_calendar"}
                  /\ log[i][1] = "insert"
                  /\ log[i][3] = "ok" )
                  => /\ tasks'[t].google_event_id = log[i][2]
                     /\ log[i][2] \notin DOMAIN events
                     /\ t \in DOMAIN tasks => tasks[t].google_event_id = None
                     /\ Cardinality({j \in DOMAIN log : log[j][1] = "insert"}) = 1
          /\ ( /\ last'.op = "sync_task_to_calendar"
               /\ t \in DOMAIN tasks
               /\ tasks[t].google_event_id /= None )
               => /\ ~ \E i \in DOMAIN log : log[i][1] = "insert"
                  /\ \A i \in DOMAIN log :
                        log[i][1] \in RemoteKinds
                          => log[i][2] = tasks[t].google_event_id
                  /\ DOMAIN events' = DOMAIN events
                  /\ tasks' = tasks
          /\ \A x \in DOMAIN tasks \cap DOMAIN tasks' :
                ( /\ tasks[x].google_event_id /= None
                  /\ tasks'[x].google_event_id /= tasks[x].google_event_id )
                  => /\ tasks'[x].google_event_id = None
                     /\ tasks[x].google_event_id \notin DOMAIN events'
    ]_vars

\* sync_task_to_calendar on a task that carries an event id has updated
\* that event; the user's calendar holds this one event
C26_Witness ==
  /\ last.op = "sync_task_to_calendar"
  /\ last.code = 200
  /\ Logged(last.log, "update", "ok")
  /\ ~Logged(last.log, "insert", "ok")
  /\ tasks[last.target].google_event_id \in DOMAIN events
  /\ Cardinality({e \in DOMAIN events : events[e].owner = last.user}) = 1


\* the event has a start: a dateTime or a date
HasStart(event) ==
  event.start.dateTime /= NoString \/ event.start.date /= NoString

\* C27: a run of sync_calendar_events_to_tasks on any list, one that
\* repeats an event id included, leaves the tasks there were as they were;
\* each task it makes belongs to the user, has status todo and both sync
\* fields set, and carries the id of an entry of the list that has an id
\* and a start; no two of the user's tasks carry the same event id; and a
\* second run on the same list changes nothing.
C27_ImportIdempotent ==
  [][ last'.op = "sync_calendar_events_to_tasks"
        => LET a == last'.user
               list == last'.imported
               made == DOMAIN tasks' \ DOMAIN tasks
           IN  /\ \A t \in DOMAIN tasks :
                     t \in DOMAIN tasks' /\ tasks'[t] = tasks[t]
               /\ \A t \in made :
                     /\ tasks'[t].user_id = a
                     /\ tasks'[t].status = "todo"
                     /\ tasks'[t].synced_to_calendar
                     /\ tasks'[t].google_event_id /= None
                     /\ \E i \in DOMAIN list :
                           /\ list[i].id = tasks'[t].google_event_id
                           /\ HasStart(list[i])
               /\ \A i \in DOMAIN list :
                     Cardinality({t \in DOMAIN tasks' :
                                    /\ tasks'[t].user_id = a
                                    /\ tasks'[t].google_event_id = list[i].id
                                    /\ list[i].id /= None}) <= 1
               /\ ImportEvents(tasks', a, list) = tasks'
    ]_vars

\* a list that names one event of the user's calendar twice, first with a
\* start that does not parse and then with one that does, has been
\* imported: one task carries the event's id
C27_Witness ==
  /\ last.op = "sync_calendar_events_to_tasks"
  /\ Len(last.imported) = 2
  /\ last.imported[1].id = last.imported[2].id
  /\ last.imported[1].id \in DOMAIN events
  /\ events[last.imported[1].id].reminders = "default"
  /\ Has(last.imported[1].start.dateTime, "+")
  /\ Has(last.imported[2].start.dateTime, "Z")
  /\ Cardinality({t \in DOMAIN tasks :
                    /\ tasks[t].user_id = last.user
                    /\ tasks[t].google_event_id = last.imported[1].id
                    /\ tasks[t].due_date = 10}) = 1


\* C28: disconnect_google clears the acting user's token and flag and
\* changes nothing else: every other user row, every task (its
\* google_event_id and synced_to_calendar included) and every remote event
\* stay as they were. A delete_task by a disconnected user on an own task
\* that carries an event id deletes the row without asking for a service
\* or making a remote call, and the event stays in the calendar.
C28_DisconnectFrame ==
  [][ LET a == last'.user
          t == last'.target
      IN  /\ last'.op = "disconnect_google"
               => /\ users' = [users EXCEPT ![a] = Disconnected]
                  /\ tasks' = tasks
                  /\ events' = events
                  /\ categories' = categories
                  /\ \A i \in DOMAIN last'.log :
                        last'.log[i][1] \notin RemoteKinds
          /\ ( /\ last'.op = "delete_task"
               /\ ~users[a].calendar_sync_enabled
               /\ t \in DOMAIN tasks
               /\ tasks[t].user_id = a
               /\ tasks[t].google_event_id /= None )
               => /\ last'.log = <<Call("db_delete", t, "ok")>>
                  /\ t \notin DOMAIN tasks'
                  /\ events' = events
    ]_vars

\* a user with a task linked to a live event has disconnected: the task
\* still carries the event id and the flag, the event is in the calendar
C28_Witness ==
  /\ last.op = "disconnect_google"
  /\ users[last.user] = Disconnected
  /\ \E t \in DOMAIN tasks :
       /\ tasks[t].user_id = last.user
       /\ tasks[t].synced_to_calendar
       /\ InCalendar(last.user, tasks[t].google_event_id)


\* the request has looked its category up and found no row
FoundNone(w) == requests[w].looked_up /\ requests[w].found = None

\* C29: when two add_task requests of one user that name the same new
\* free-text category have both looked it up before either committed and
\* both are over, there is exactly one Category row for (user, name), and
\* both requests have ended with a redirect and their task stored with the
\* id of that row.
C29_BothRequestsComplete ==
  \A w \in Threads, v \in Threads :
     ( /\ w /= v
       /\ requests[w].pc = "done"
       /\ requests[v].pc = "done"
       /\ requests[w].user = requests[v].user
       /\ HasCustomCategory(requests[w].other)
       /\ NormalizeName(requests[w].other) = NormalizeName(requests[v].other)
       /\ FoundNone(w)
       /\ FoundNone(v) )
       => LET rows == CategoryOf(requests[w].user,
                                 NormalizeName(requests[w].other))
          IN  /\ Cardinality(rows) = 1
              /\ \A x \in {w, v} :
                    /\ requests[x].code = 302
                    /\ requests[x].task \in DOMAIN tasks
                    /\ tasks[requests[x].task].category_id \in rows

====
